---- MODULE Spec2Model ----
(***************************************************************************)
(* Model of the hybrid energy system components in "src/System Components" *)
(* (pv_panel.py, battery.py, diesel_gen.py, grid.py, load.py,              *)
(* component.py, system.py, hybrid_energy_system.py).                      *)
(*                                                                         *)
(* Conventions                                                             *)
(*  - A column name is a sequence of one-character strings, so that        *)
(*    str.lower() and the substring test `req in col.lower()` are computed.*)
(*  - A number that the code computes by float division is an exact        *)
(*    fraction <<num, den>>.                                               *)
(*  - Every call leaves its outcome in `res`: the operation, the kind of   *)
(*    outcome ("value" or the Python exception class) and the value.       *)
(*  - The object states are those the __init__ bodies assign, and the      *)
(*    methods are modelled by their bodies as written.  Whether the class  *)
(*    call itself gets past ABCMeta's abstract-method check is modelled by *)
(*    Instantiate.  (pv_panel.py and battery.py end in a __repr__ whose    *)
(*    body is not indented; the model takes the other methods as they      *)
(*    would run with that one method indented.)                            *)
(*  - The components share no state, so the claims are checked under the   *)
(*    specifications SpecCost, SpecData, SpecPower, SpecLookup,            *)
(*    SpecDiesel and SpecBattery, each the part of Next that one group of  *)
(*    operations makes up.                                                 *)
(*  - Grid and load column names are plain strings: the code compares      *)
(*    them as they are.  A grid or load dataset is its columns and rows.   *)
(*  - supplied_minimum_power is a history variable: the value last passed  *)
(*    to DieselGen's constructor or set_minimum_power.                     *)
(*  - The trigonometric part of the HDKR model (pv_panel.py 168-191) is    *)
(*    not computed: the clearness index it yields is an input, in          *)
(*    thousandths, and the tilted-surface radiation of a row that passes   *)
(*    the night guard is kept as the terms it is built from.               *)
(***************************************************************************)
EXTENDS Integers, Sequences, FiniteSets, TLC

VARIABLES pv, battery, diesel_gen, grid, load, supplied_minimum_power, res

vars == <<pv, battery, diesel_gen, grid, load, supplied_minimum_power, res>>

----------------------------------------------------------------------------
(* Strings *)

UpperCase == <<"A","B","C","D","E","F","G","H","I","J","K","L","M",
               "N","O","P","Q","R","S","T","U","V","W","X","Y","Z">>

LowerCase == <<"a","b","c","d","e","f","g","h","i","j","k","l","m",
               "n","o","p","q","r","s","t","u","v","w","x","y","z">>

\* The lower-case letter of each upper-case letter
ToLower ==
    [ch \in {UpperCase[i] : i \in 1..Len(UpperCase)} |->
        LowerCase[CHOOSE i \in 1..Len(UpperCase) : UpperCase[i] = ch]]

\* str.lower() on one character
LowerChar(ch) == IF ch \in DOMAIN ToLower THEN ToLower[ch] ELSE ch

\* str.lower()
StrLower(s) == [i \in 1..Len(s) |-> LowerChar(s[i])]

\* Python's `tok in s` on strings
StrContains(tok, s) ==
    \E i \in 1..(Len(s) - Len(tok) + 1) : SubSeq(s, i, i + Len(tok) - 1) = tok

\* The required semantic columns, in the order of the dict literal
t_month == <<"m","o","n","t","h">>
t_day == <<"d","a","y">>
t_hour == <<"h","o","u","r">>
t_horizontal_irradiance ==
    <<"h","o","r","i","z","o","n","t","a","l"," ",
      "i","r","r","a","d","i","a","n","c","e">>
t_temperature == <<"t","e","m","p","e","r","a","t","u","r","e">>
t_solar_zenith == <<"s","o","l","a","r"," ","z","e","n","i","t","h">>

required_columns ==
    <<t_month, t_day, t_hour, t_horizontal_irradiance, t_temperature,
      t_solar_zenith>>

\* Column names used by the datasets of the model
c_Month == <<"M","o","n","t","h">>
c_Day == <<"D","a","y">>
c_Hour == <<"H","o","u","r">>
c_Horizontal_Irradiance ==
    <<"H","o","r","i","z","o","n","t","a","l"," ",
      "I","r","r","a","d","i","a","n","c","e">>
c_Temperature == <<"T","e","m","p","e","r","a","t","u","r","e">>
c_Solar_Zenith == <<"S","o","l","a","r"," ","Z","e","n","i","t","h">>
c_Weekday == <<"W","e","e","k","d","a","y">>
c_Air_Temperature ==
    <<"A","i","r"," ","T","e","m","p","e","r","a","t","u","r","e">>
c_Calculated_Irradiance ==
    <<"C","a","l","c","u","l","a","t","e","d","_",
      "I","r","r","a","d","i","a","n","c","e">>
c_Power_Output == <<"P","o","w","e","r","_","O","u","t","p","u","t">>

\* Python None, where a column name is expected
None == <<>>

\* `x in seq`
InSeq(x, seq) == \E i \in 1..Len(seq) : seq[i] = x

----------------------------------------------------------------------------
(* Outcomes and arithmetic *)

\* A call that returns v
Return(v) == [kind |-> "value", val |-> v]

\* A call that raises exception class exc with message msg
Raise(exc, msg) == [kind |-> exc, val |-> msg]

RECURSIVE Pow(_, _)
\* b ** e for an integer e >= 0
Pow(b, e) == IF e = 0 THEN 1 ELSE b * Pow(b, e - 1)

\* Fractions <<num, den>>, den # 0
FracEq(a, b) == a[1] * b[2] = b[1] * a[2]

FracAdd(a, b) == <<a[1] * b[2] + b[1] * a[2], a[2] * b[2]>>

FracInt(n) == <<n, 1>>

\* (cost * r) / (1 - (1 + r) ** -lifetime), r = <<n, d>> with d > 0 and
\* lifetime >= 0.  Python raises ZeroDivisionError for 0 ** -lifetime and
\* for a zero divisor.
annual_cost(cost, r, lifetime) ==
    LET n == r[1]
        d == r[2]
        up == Pow(d + n, lifetime)
        dn == Pow(d, lifetime)
    IN  IF d + n = 0 /\ lifetime > 0
        THEN Raise("ZeroDivisionError", "0.0 cannot be raised to a negative power")
        ELSE IF up - dn = 0
        THEN Raise("ZeroDivisionError", "float division by zero")
        ELSE Return(<<cost * n * up, d * (up - dn)>>)

\* 0 < interest_rate < 1
RateInOpenUnitInterval(r) == 0 < r[1] /\ r[1] < r[2]

----------------------------------------------------------------------------
(* The class hierarchy *)

Kinds == {"PVPanel", "Battery", "DieselGen", "Grid", "Load"}

\* The abstract methods of Component
ComponentAbstractMethods == {"investment_cost"}

\* The cost methods each class body defines, with the number of required
\* arguments after self
CostMethods(kind) ==
    CASE kind = "PVPanel" -> [calculate_investment_cost |-> 1]
      [] kind = "Battery" -> [investment_cost |-> 1]
      [] kind = "DieselGen" -> [investment_cost |-> 1]
      [] kind = "Grid" -> [calculate_investment_cost |-> 0]
      [] kind = "Load" -> [investment_cost |-> 0]

\* cls.__abstractmethods__: what Component declares abstract and the class
\* does not override
AbstractMethodsLeft(kind) ==
    ComponentAbstractMethods \ DOMAIN CostMethods(kind)

\* The abstract methods of System, and the methods HybridEnergySystem defines
SystemAbstractMethods == {"total_investment_cost", "__repr__"}

HybridEnergySystemMethods == {"__init__", "total_investment_cost"}

\* Calling the class: object.__new__ refuses a class with abstract methods
ClassCall(kind) ==
    IF (IF kind = "HybridEnergySystem"
        THEN SystemAbstractMethods \ HybridEnergySystemMethods
        ELSE AbstractMethodsLeft(kind)) # {}
    THEN Raise("TypeError", "Can't instantiate abstract class")
    ELSE Return(kind)

----------------------------------------------------------------------------
(* Irradiance datasets *)

\* A dataset is [columns, len, rows, irr, power]: the column names in
\* order, len(DataFrame), the rows that are followed (the last of them is
\* the last row of the DataFrame; the row loops treat every row alike), and
\* the derived columns Calculated_Irradiance and Power_Output, one value
\* per followed row, empty while the column does not exist.

\* The cell of row `row` under the source column `col`
Cell(col, row) ==
    LET l == StrLower(col)
    IN  CASE l = t_month -> row.month
          [] l = t_day -> row.day
          [] l = t_hour -> row.hour
          [] l = t_horizontal_irradiance -> row.ghi
          [] l = t_temperature -> row.temp
          [] l = StrLower(c_Air_Temperature) -> row.temp
          [] l = t_solar_zenith -> row.zen
          [] l = StrLower(c_Weekday) -> row.wd

\* DataFrame[col] for a source column: the column's values, row by row
Series(data, col) == [i \in 1..Len(data.rows) |-> Cell(col, data.rows[i])]

\* DataFrame[col] = values: overwrite the column, or append it
WithColumn(columns, col) ==
    IF InSeq(col, columns) THEN columns ELSE Append(columns, col)

----------------------------------------------------------------------------
(* PVPanel *)

\* validate_irradiance_data: every required name is, lower-cased, equal to
\* some lower-cased column name
validate_irradiance_data(data) ==
    IF \A r \in 1..Len(required_columns) :
          \E c \in 1..Len(data.columns) :
             StrLower(required_columns[r]) = StrLower(data.columns[c])
    THEN Return(data)
    ELSE Raise("ValueError", required_columns)

\* The attributes __init__ assigns besides irradiance_data.  Beta_p is in
\* units of 1e-4 per degree.
PVAttributes(cost, lifetime) ==
    [G_0 |-> 1000, G_N |-> 800, T_0 |-> 25, TC_N |-> 43, Talpha_N |-> 25,
     Beta_p |-> -34, P_max |-> 555, lifetime |-> lifetime, cost |-> cost]

\* getattr(self, name)
GetAttr(obj, name) ==
    IF name \in DOMAIN obj
    THEN Return(obj[name])
    ELSE Raise("AttributeError", name)

\* PVPanel.calculate_investment_cost
PV_annual_cost(self, interest_rate) ==
    IF ~RateInOpenUnitInterval(interest_rate)
    THEN Raise("ValueError", "Interest rate should be a decimal between 0 and 1.")
    ELSE annual_cost(self.cost, interest_rate, self.lifetime)

\* DiffuseBranch with the boundaries on the other side
DiffuseBranch_strict(clearness_index) ==
    IF clearness_index < 350 THEN 1
    ELSE IF clearness_index >= 750 THEN 2
    ELSE 3

\* Which branch of lines 193-198 the clearness index (in thousandths) takes:
\* 1 the `if`, 2 the `elif`, 3 the `else`
DiffuseBranch(clearness_index) ==
    IF clearness_index <= 350 THEN 1
    ELSE IF clearness_index > 750 THEN 2
    ELSE 3

\* Ro_d in millionths from the clearness index in thousandths
DiffuseFraction(clearness_index) ==
    CASE DiffuseBranch(clearness_index) = 1 -> 1000000 - 249 * clearness_index
      [] DiffuseBranch(clearness_index) = 2 -> 177000
      [] DiffuseBranch(clearness_index) = 3 -> 1557000 - 1840 * clearness_index

\* NightGuard requiring both conditions
NightGuard_both(G_horizontal_radiation, solar_zenith) ==
    G_horizontal_radiation = 0 /\ solar_zenith < 0

\* The guard of line 164
NightGuard(G_horizontal_radiation, solar_zenith) ==
    G_horizontal_radiation = 0 \/ solar_zenith < 0

\* The tilt angle used: the latitude when tilt_angle is None
TiltUsed(site) ==
    IF site.tilt_angle.given THEN site.tilt_angle.v ELSE site.latitude

\* radiation_slope_surface.  `site` holds longitude, latitude,
\* timezone_index, tilt_angle, surface_azim and ground_reflectance;
\* clearness_index stands for the value line 191 computes.  A result that
\* is not the guard's 0 is s_radiation, kept as its terms, with the branch
\* of lines 193-198 that was taken.
radiation_slope_surface(day, time, G_horizontal_radiation, solar_zenith, site, clearness_index) ==
    LET tilt_angle == TiltUsed(site)
        Ro_d == DiffuseFraction(clearness_index)
    IN  IF NightGuard(G_horizontal_radiation, solar_zenith)
        THEN Return([returned |-> "0", tilt_angle |-> tilt_angle, branch |-> 0,
                     Ro_d |-> 0, diffuse_radiation |-> 0, beam_radiation |-> 0,
                     ground_reflectance |-> 0])
        ELSE Return([returned |-> "s_radiation", tilt_angle |-> tilt_angle,
                     branch |-> DiffuseBranch(clearness_index), Ro_d |-> Ro_d,
                     diffuse_radiation |-> Ro_d * G_horizontal_radiation,
                     beam_radiation |->
                         (1000000 - Ro_d) * G_horizontal_radiation,
                     ground_reflectance |-> site.ground_reflectance])

\* The default arguments of radiation_slope_surface: angles in 1e-4
\* degrees, reflectance in tenths
DefaultSite ==
    [longitude |-> 339009, latitude |-> 354811, timezone_index |-> 2,
     tilt_angle |-> [given |-> FALSE, v |-> 0], surface_azim |-> 0,
     ground_reflectance |-> 6]

\* ResolveColumn keeping the first column bound to a token
ResolveColumn_first(found, col) ==
    LET lower == StrLower(col)
    IN  [r \in 1..Len(required_columns) |->
            IF found[r] = None /\ StrContains(required_columns[r], lower)
            THEN col
            ELSE found[r]]

\* The inner loop of lines 234-236 for one column: every token the
\* lower-cased column name contains is (re)bound to this column
ResolveColumn(found, col) ==
    LET lower == StrLower(col)
    IN  [r \in 1..Len(required_columns) |->
            IF StrContains(required_columns[r], lower) THEN col ELSE found[r]]

RECURSIVE ResolveColumns(_, _)
\* The loop of lines 233-236 over the first k columns
ResolveColumns(columns, k) ==
    IF k = 0
    THEN [r \in 1..Len(required_columns) |-> None]
    ELSE ResolveColumn(ResolveColumns(columns, k - 1), columns[k])

RECURSIVE MissingFrom(_, _)
\* [key for key, value in required_columns.items() if value is None],
\* from token r on
MissingFrom(found, r) ==
    IF r > Len(required_columns)
    THEN <<>>
    ELSE IF found[r] = None
    THEN <<required_columns[r]>> \o MissingFrom(found, r + 1)
    ELSE MissingFrom(found, r + 1)

\* The hourly row count of a 365-day year (line 250)
HoursPerYear == 8760

\* The literal month lengths with February as given
DaysPerMonth(feb) == <<31, feb, 31, 30, 31, 30, 31, 31, 30, 31, 30, 31>>

RECURSIVE CumSum(_, _)
\* np.cumsum(seq)[k - 1]: the sum of the first k elements
CumSum(seq, k) == IF k = 0 THEN 0 ELSE seq[k] + CumSum(seq, k - 1)

\* year_days of line 250, from the last row's day and month
YearDays(len, last_day, last_month) ==
    last_day
      + CumSum(DaysPerMonth(IF len > HoursPerYear THEN 29 ELSE 28), last_month)
      - 1

\* DY_per_MO of lines 251-255
DY_per_MO(year_days) ==
    IF year_days = 366 THEN DaysPerMonth(29) ELSE DaysPerMonth(28)

\* CumDays with the month's own length left in (np.cumsum(DY) alone)
CumDays_inclusive(DY, month) == CumSum(DY, month)

\* cum_days[month - 1] of lines 258-259: np.cumsum(DY) - DY at the month
CumDays(DY, month) == CumSum(DY, month) - DY[month]

\* calculate_irradiance_vector, as the outcome and the dataset it leaves
calculate_irradiance_vector(data) ==
    LET found == ResolveColumns(data.columns, Len(data.columns))
        month == Series(data, found[1])
        day == Series(data, found[2])
        hour == Series(data, found[3])
        horizontal_irradiance == Series(data, found[4])
        solar_zenith == Series(data, found[6])
        T == Len(data.rows)
        year_days == YearDays(data.len, day[T], month[T])
        DY == DY_per_MO(year_days)
        day_of_year == [t \in 1..T |-> day[t] + CumDays(DY, month[t])]
        irradiance ==
            [t \in 1..T |->
                radiation_slope_surface(day_of_year[t], hour[t],
                    horizontal_irradiance[t], solar_zenith[t], DefaultSite,
                    data.rows[t].kt).val]
        out == [data EXCEPT
                  !.columns = WithColumn(data.columns, c_Calculated_Irradiance),
                  !.irr = irradiance]
    IN  IF \E r \in 1..Len(required_columns) : found[r] = None
        THEN [out |-> Raise("ValueError", MissingFrom(found, 1)),
              data |-> data]
        ELSE [out |-> Return([required_columns |-> found,
                              february |-> DY[2],
                              day_of_year |-> day_of_year,
                              columns |-> out.columns,
                              Calculated_Irradiance |-> irradiance]),
              data |-> out]

\* IrradianceCalculated without the test
IrradianceCalculated_unchecked(data) == TRUE

\* 'Calculated_Irradiance' in self.irradiance_data.columns (line 122)
IrradianceCalculated(data) == InSeq(c_Calculated_Irradiance, data.columns)

\* P_panel of lines 129-132 for one row, kept as its operands
PowerTerm(irradiance, temperature, TCN, Talpha_N, G_N, P_max, G_0, b_p, T_0) ==
    [irradiance |-> irradiance, temperature |-> temperature,
     temp_coeff |-> <<TCN - Talpha_N, G_N>>, P_max |-> P_max, G_0 |-> G_0,
     b_p |-> b_p, T_0 |-> T_0]

\* calculate_power_output, as the outcome and the dataset it leaves
calculate_power_output(self, data) ==
    LET T == Len(data.rows)
        temperature == Series(data, c_Temperature)
        TCN == GetAttr(self, "TCN")
        b_p == GetAttr(self, "b_p")
        P_panel ==
            [t \in 1..T |->
                PowerTerm(data.irr[t], temperature[t], TCN.val, self.Talpha_N,
                          self.G_N, self.P_max, self.G_0, b_p.val, self.T_0)]
        out == [data EXCEPT
                  !.columns = WithColumn(data.columns, c_Power_Output),
                  !.power = P_panel]
    IN  IF ~IrradianceCalculated(data)
        THEN [out |-> Raise("ValueError",
                 "Irradiance data must be calculated first. Use calculate_irradiance_vector method."),
              data |-> data]
        ELSE IF ~InSeq(c_Temperature, data.columns)
        THEN [out |-> Raise("KeyError", "Temperature"), data |-> data]
        ELSE IF TCN.kind # "value"
        THEN [out |-> TCN, data |-> data]
        ELSE IF b_p.kind # "value"
        THEN [out |-> b_p, data |-> data]
        ELSE [out |-> Return([columns |-> out.columns,
                              Power_Output |-> P_panel]),
              data |-> out]

----------------------------------------------------------------------------
(* Battery, DieselGen, Grid, Load, HybridEnergySystem *)

\* The attributes Battery.__init__ assigns; fractions of one in hundredths
BatteryAttributes(cost, lifetime) ==
    [SOC_min |-> 20, SOC_max |-> 90, SOC_init |-> 50, eff_ch |-> 95,
     eff_disch |-> 95, capacity |-> 100, min_charging_time |-> 4,
     P_B_max |-> <<100, 4>>, lifetime |-> lifetime, cost |-> cost]

\* self.P_B_max = self.capacity / self.min_charging_time, on an object
\* whose capacity or min_charging_time was just assigned: a zero divisor
\* raises and leaves P_B_max as it was
update_P_B_max(self) ==
    IF self.min_charging_time = 0
    THEN [self |-> self, out |-> Raise("ZeroDivisionError", "division by zero")]
    ELSE [self |-> [self EXCEPT
                      !.P_B_max = <<self.capacity, self.min_charging_time>>],
          out |-> Return(None)]

\* Battery.set_capacity
Battery_capacity_set(self, value) ==
    update_P_B_max([self EXCEPT !.capacity = value])

\* Battery.set_min_charging_time
Battery_min_charging_time_set(self, value) ==
    update_P_B_max([self EXCEPT !.min_charging_time = value])

\* Battery.__init__(capacity, min_charging_time), cost and lifetime as given
Battery_new(capacity, min_charging_time, cost, lifetime) ==
    update_P_B_max([BatteryAttributes(cost, lifetime) EXCEPT
                       !.capacity = capacity,
                       !.min_charging_time = min_charging_time])

\* Battery.investment_cost
Battery_investment_cost(self, interest_rate) ==
    annual_cost(self.cost, interest_rate, self.lifetime)

\* The cost attributes DieselGen.__init__ assigns, at their defaults
DieselGenAttributes ==
    [capacity |-> 10000, cost_per_kwh |-> <<1, 2>>, lifetime |-> 20,
     initial_cost |-> 200000, annual_om_cost |-> 10000]

\* hasattr(self, name): an object is the record of its attributes
hasattr(self, name) == name \in DOMAIN self

\* self.name = value
setattr(self, name, value) ==
    [f \in DOMAIN self \cup {name} |-> IF f = name THEN value ELSE self[f]]

\* del self.name
delattr(self, name) == [f \in DOMAIN self \ {name} |-> self[f]]

\* isinstance(value, (int, float)): a number is a fraction <<num, den>> with
\* den > 0, and None is the value that is not a number
isinstance_number(value) == Len(value) = 2

\* value < 1
LessThanOne(value) == value[1] < value[2]

\* capacity * value, capacity being an integer
Product(capacity, value) == <<capacity * value[1], value[2]>>

_set_minimum_power_keep(self, value) ==
    IF isinstance_number(value) /\ LessThanOne(value)
    THEN setattr(setattr(self, "minimum_power", Product(self.capacity, value)),
                 "_min_power_percentage", value)
    ELSE setattr(self, "minimum_power", value)

\* DieselGen._set_minimum_power
_set_minimum_power(self, value) ==
    IF isinstance_number(value) /\ LessThanOne(value)
    THEN setattr(setattr(self, "minimum_power", Product(self.capacity, value)),
                 "_min_power_percentage", value)
    ELSE LET s == setattr(self, "minimum_power", value)
         IN  IF hasattr(s, "_min_power_percentage")
             THEN delattr(s, "_min_power_percentage")
             ELSE s

\* DieselGen.set_minimum_power
set_minimum_power(self, value) == _set_minimum_power(self, value)

\* DieselGen.set_capacity
DieselGen_capacity_set(self, value) ==
    LET s == setattr(self, "capacity", value)
    IN  IF hasattr(s, "_min_power_percentage")
        THEN set_minimum_power(s, s["_min_power_percentage"])
        ELSE s

\* DieselGen.__init__(capacity, minimum_power), the other parameters at
\* their defaults: capacity first, then the minimum power, then the rest
DieselGen_new(capacity, minimum_power) ==
    LET s == _set_minimum_power([capacity |-> capacity], minimum_power)
    IN  [f \in DOMAIN s \cup DOMAIN DieselGenAttributes |->
            IF f \in DOMAIN s THEN s[f] ELSE DieselGenAttributes[f]]

\* DieselGen.investment_cost
DieselGen_investment_cost(self, newly_installed) ==
    IF newly_installed
    THEN IF self.lifetime = 0
         THEN Raise("ZeroDivisionError", "division by zero")
         ELSE Return(FracAdd(<<self.initial_cost, self.lifetime>>,
                             FracInt(self.annual_om_cost)))
    ELSE Return(FracInt(self.annual_om_cost))

\* Grid.calculate_investment_cost
Grid_calculate_investment_cost == Return(FracInt(0))

\* Load.investment_cost
Load_investment_cost == Return(FracInt(0))

\* The columns Grid.validate_grid_data requires, by their exact names
Grid_required_columns == <<"month", "day", "hour", "tariff", "status">>

\* The columns Load.validate_load_data requires, by their exact names
Load_required_columns == <<"month", "day", "hour", "demand">>

\* [col for col in required_columns if col not in data.columns]
missing_columns(required, data) ==
    SelectSeq(required, LAMBDA col : ~InSeq(col, data.columns))

\* Grid.validate_grid_data
validate_grid_data(data) ==
    LET missing == missing_columns(Grid_required_columns, data)
    IN  IF Len(missing) > 0 THEN Raise("ValueError", missing) ELSE Return(data)

\* Load.validate_load_data
validate_load_data(data) ==
    LET missing == missing_columns(Load_required_columns, data)
    IN  IF Len(missing) > 0 THEN Raise("ValueError", missing) ELSE Return(data)

\* data[(data['month'] == month) & (data['day'] == day) &
\* (data['hour'] == hour)]: the rows the boolean mask keeps, in dataset order
record_at(rows, month, day, hour) ==
    SelectSeq(rows, LAMBDA r : r.month = month /\ r.day = day /\ r.hour = hour)

iloc0_last(record) == record[Len(record)]

\* record.iloc[0]
iloc0(record) == record[1]

\* Grid.get_grid_status_and_tariff
get_grid_status_and_tariff(self, month, day, hour) ==
    LET record == record_at(self.grid_data.rows, month, day, hour)
    IN  IF Len(record) = 0
        THEN Return(<<None, None>>)
        ELSE Return(<<iloc0(record).status, iloc0(record).tariff>>)

\* Load.get_demand
get_demand(self, month, day, hour) ==
    LET record == record_at(self.load_data.rows, month, day, hour)
    IN  IF Len(record) = 0 THEN Return(None) ELSE Return(iloc0(record).demand)

\* Component.investment_cost, the abstract method's body
Component_investment_cost ==
    Raise("NotImplementedError", "Subclasses must implement this method")

\* obj.investment_cost() with no argument, on an object of class `kind`:
\* the class's own method if it defines one, else Component's
investment_cost_call(kind) ==
    IF "investment_cost" \notin DOMAIN CostMethods(kind)
    THEN Component_investment_cost
    ELSE IF CostMethods(kind).investment_cost > 0
    THEN Raise("TypeError", "missing 1 required positional argument")
    ELSE Load_investment_cost

\* The components of HybridEnergySystem in the order total_investment_cost
\* calls them: pv, battery, diesel_gen, grid, load
HybridEnergySystemParts == <<"PVPanel", "Battery", "DieselGen", "Grid", "Load">>

RECURSIVE SumFrom(_, _)
\* The sum of lines 35-39 from the k-th call on, acc being the sum so far;
\* the first call that raises ends the evaluation
SumFrom(k, acc) ==
    IF k > Len(HybridEnergySystemParts)
    THEN Return(acc)
    ELSE LET c == investment_cost_call(HybridEnergySystemParts[k])
         IN  IF c.kind # "value" THEN c ELSE SumFrom(k + 1, FracAdd(acc, c.val))

\* HybridEnergySystem.total_investment_cost
total_investment_cost == SumFrom(1, FracInt(0))

----------------------------------------------------------------------------
(* Inputs *)

\* How many of the panel's settable attributes may differ from their
\* constructor defaults at a time
MaxChanged == 1

\* Interest rates: 0, 1, 1/2, 1/10, -1/2, 3/2, -1
Rates == {<<0, 1>>, <<1, 1>>, <<1, 2>>, <<1, 10>>, <<-1, 2>>, <<3, 2>>, <<-1, 1>>}

NewlyInstalled == {TRUE, FALSE}

Classes == Kinds \cup {"HybridEnergySystem"}

Days == {1, 60}

Radiations == {0, 500}

Zeniths == {-5, 40}

Lifetimes == {1, 2}

Costs == {750, 1000}

Row(month, day, hour, ghi, temp, zen, wd, kt) ==
    [month |-> month, day |-> day, hour |-> hour, ghi |-> ghi, temp |-> temp,
     zen |-> zen, wd |-> wd, kt |-> kt]

r_night == Row(1, 1, 0, 0, 10, 110, 3, 0)

r_noon == Row(3, 1, 12, 600, 20, 40, 5, 560)

r_invalid == Row(12, 2, 10, 300, 5, -5, 6, 351)

r_dec1 == Row(12, 1, 12, 400, 8, 55, 7, 750)

r_dec31 == Row(12, 31, 23, 0, 6, 120, 2, 0)

LastRows == {r_night, r_noon, r_invalid, r_dec1, r_dec31}

Lens == {HoursPerYear, HoursPerYear + 24}

Canonical ==
    <<c_Month, c_Day, c_Hour, c_Horizontal_Irradiance, c_Temperature,
      c_Solar_Zenith>>

\* Column layouts that pass validate_irradiance_data, with extra columns
OtherLayouts ==
    { StrLowerAll : StrLowerAll \in
        { [i \in 1..Len(Canonical) |-> StrLower(Canonical[i])] } }
    \cup { <<c_Month, c_Day, c_Weekday, c_Hour, c_Horizontal_Irradiance,
             c_Temperature, c_Solar_Zenith>>,
           <<c_Weekday, c_Month, c_Day, c_Hour, c_Horizontal_Irradiance,
             c_Temperature, c_Solar_Zenith>> }

\* Column layouts that validate_irradiance_data rejects
BadLayouts ==
    { <<c_Month, c_Day, c_Hour, c_Horizontal_Irradiance, c_Solar_Zenith>>,
      <<c_Month, c_Day, c_Hour, c_Horizontal_Irradiance, c_Air_Temperature,
        c_Solar_Zenith>> }

DataFrame(columns, len, rows) ==
    [columns |-> columns, len |-> len, rows |-> rows, irr |-> <<>>,
     power |-> <<>>]

\* The dataset of Init: a night row and a noon row
FirstData == DataFrame(Canonical, 2, <<r_night, r_noon>>)

Datasets ==
    { DataFrame(Canonical, len, <<r_noon, b>>) : len \in Lens, b \in LastRows }
    \cup { DataFrame(cols, 2, <<r_night, r_noon>>) :
        cols \in {Canonical} \cup OtherLayouts \cup BadLayouts }

\* The datasets of the power model: the valid two-row ones
PowerDatasets ==
    { DataFrame(cols, 2, <<r_night, r_noon>>) :
        cols \in {Canonical} \cup OtherLayouts }

SettableAttributes ==
    {"G_0", "G_N", "T_0", "TC_N", "Talpha_N", "Beta_p", "P_max"}

\* The value a setter call passes for each attribute
SetterValue(name) ==
    CASE name = "G_0" -> 900
      [] name = "G_N" -> 700
      [] name = "T_0" -> 20
      [] name = "TC_N" -> 45
      [] name = "Talpha_N" -> 20
      [] name = "Beta_p" -> -40
      [] name = "P_max" -> 400

Sites ==
    { DefaultSite,
      [DefaultSite EXCEPT !.tilt_angle = [given |-> TRUE, v |-> 200000],
                          !.ground_reflectance = 2] }

ClearnessIndexes == {-100, 350, 351, 750, 751}

\* The most rows a grid or load dataset has
MaxLookupRows == 2

GridRow(month, day, hour, tariff, status) ==
    [month |-> month, day |-> day, hour |-> hour, tariff |-> tariff,
     status |-> status]

LoadRow(month, day, hour, demand) ==
    [month |-> month, day |-> day, hour |-> hour, demand |-> demand]

\* Two rows of the same hour with different values, and a row of the next
GridRows == {GridRow(1, 1, 0, 10, 1), GridRow(1, 1, 0, 20, 0),
             GridRow(1, 1, 1, 12, 1)}

LoadRows == {LoadRow(1, 1, 0, 5), LoadRow(1, 1, 0, 7)}

SeqsUpTo(S, n) == UNION {[1..k -> S] : k \in 0..n}

\* Grid datasets that pass validation, and one whose names are capitalised
GridDatasets ==
    {[columns |-> Grid_required_columns, rows |-> rows] :
        rows \in SeqsUpTo(GridRows, MaxLookupRows)}
    \cup {[columns |-> <<"Month", "day", "hour", "status">>, rows |-> <<>>]}

\* Load datasets that pass validation, and one without a demand column
LoadDatasets ==
    {[columns |-> Load_required_columns, rows |-> rows] :
        rows \in SeqsUpTo(LoadRows, MaxLookupRows)}
    \cup {[columns |-> <<"month", "day", "hour">>, rows |-> <<>>]}

\* The (month, day, hour) triples looked up: two that rows have, one not
Times == {<<1, 1, 0>>, <<1, 1, 1>>, <<1, 2, 0>>}

\* Generator capacities in kW
Capacities == {5000, 10000, 20000}

\* Minimum powers: the fractions 1/5, 1/2 and -1/2, the absolute values 1
\* and 3000, and None
MinimumPowers == {<<1, 5>>, <<1, 2>>, <<-1, 2>>, <<1, 1>>, <<3000, 1>>, None}

\* Fuel costs per kWh: 1/2 and 3/4
FuelCosts == {<<1, 2>>, <<3, 4>>}

\* Battery capacities in kWh
BatteryCapacities == {100, 200}

\* Minimum charging times in hours
ChargingTimes == {0, 4, 8}

\* The attributes set_SOC_min, set_SOC_max, set_SOC_init, set_eff_ch and
\* set_eff_disch assign
PlainBatteryAttributes == {"SOC_min", "SOC_max", "SOC_init", "eff_ch", "eff_disch"}

\* A value in hundredths for them
Hundredths == {60}

----------------------------------------------------------------------------
(* The state machine *)

Call(op, args, out) ==
    [op |-> op, args |-> args, kind |-> out.kind, val |-> out.val]

\* PVPanel.__init__ on a first dataset: the two rows of a night and a noon
Init ==
    /\ pv = PVAttributes(750, 2) @@ [irradiance_data |-> FirstData]
    /\ battery = BatteryAttributes(1000, 2)
    /\ diesel_gen = DieselGen_new(10000, <<1, 5>>)
    /\ supplied_minimum_power = <<1, 5>>
    /\ grid = [grid_data |-> [columns |-> Grid_required_columns, rows |-> <<>>]]
    /\ load = [load_data |-> [columns |-> Load_required_columns, rows |-> <<>>]]
    /\ res = Call("__init__", <<>>, Return("HybridEnergySystem"))

\* PVPanel.__init__(irradiance_data, ..., lifetime, cost): a new panel
PVPanel_init(data, cost, lifetime) ==
    LET v == validate_irradiance_data(data)
    IN  /\ pv' = IF v.kind = "value"
                 THEN PVAttributes(cost, lifetime) @@ [irradiance_data |-> data]
                 ELSE pv
        /\ res' = Call("PVPanel", data.columns,
                       IF v.kind = "value" THEN Return("PVPanel") ELSE v)
        /\ UNCHANGED <<battery, diesel_gen, grid, load, supplied_minimum_power>>

\* PVPanel.set_G_0 ... set_P_max
PVPanel_set(name, value) ==
    /\ Cardinality({a \in SettableAttributes \ {name} :
                      pv[a] # PVAttributes(0, 0)[a]}) < MaxChanged
    /\ pv' = [pv EXCEPT ![name] = value]
    /\ res' = Call("set", name, Return(value))
    /\ UNCHANGED <<battery, diesel_gen, grid, load, supplied_minimum_power>>

PVPanel_calculate_investment_cost(interest_rate) ==
    /\ res' = Call("PVPanel.calculate_investment_cost", interest_rate,
                   PV_annual_cost(pv, interest_rate))
    /\ UNCHANGED <<pv, battery, diesel_gen, grid, load, supplied_minimum_power>>

PVPanel_radiation_slope_surface(day, time, G, zen, site, kt) ==
    /\ res' = Call("radiation_slope_surface",
                   [day |-> day, time |-> time, G_horizontal_radiation |-> G,
                    solar_zenith |-> zen, site |-> site,
                    clearness_index |-> kt],
                   radiation_slope_surface(day, time, G, zen, site, kt))
    /\ UNCHANGED <<pv, battery, diesel_gen, grid, load, supplied_minimum_power>>

PVPanel_calculate_irradiance_vector ==
    LET c == calculate_irradiance_vector(pv.irradiance_data)
    IN  /\ pv' = [pv EXCEPT !.irradiance_data = c.data]
        /\ res' = Call("calculate_irradiance_vector", pv.irradiance_data, c.out)
        /\ UNCHANGED <<battery, diesel_gen, grid, load, supplied_minimum_power>>

PVPanel_calculate_power_output ==
    LET c == calculate_power_output(pv, pv.irradiance_data)
    IN  /\ pv' = [pv EXCEPT !.irradiance_data = c.data]
        /\ res' = Call("calculate_power_output", pv.irradiance_data, c.out)
        /\ UNCHANGED <<battery, diesel_gen, grid, load, supplied_minimum_power>>

Battery_call_investment_cost(interest_rate) ==
    /\ res' = Call("Battery.investment_cost", interest_rate,
                   Battery_investment_cost(battery, interest_rate))
    /\ UNCHANGED <<pv, battery, diesel_gen, grid, load, supplied_minimum_power>>

Battery_set_cost(value) ==
    /\ battery' = [battery EXCEPT !.cost = value]
    /\ res' = Call("Battery.set_cost", value, Return(value))
    /\ UNCHANGED <<pv, diesel_gen, grid, load, supplied_minimum_power>>

Battery_set_lifetime(value) ==
    /\ battery' = [battery EXCEPT !.lifetime = value]
    /\ res' = Call("Battery.set_lifetime", value, Return(value))
    /\ UNCHANGED <<pv, diesel_gen, grid, load, supplied_minimum_power>>

DieselGen_call_investment_cost(newly_installed) ==
    /\ res' = Call("DieselGen.investment_cost", newly_installed,
                   DieselGen_investment_cost(diesel_gen, newly_installed))
    /\ UNCHANGED <<pv, battery, diesel_gen, grid, load, supplied_minimum_power>>

Grid_call_calculate_investment_cost ==
    /\ res' = Call("Grid.calculate_investment_cost", <<>>,
                   Grid_calculate_investment_cost)
    /\ UNCHANGED <<pv, battery, diesel_gen, grid, load, supplied_minimum_power>>

\* kind(...): creating an object of the class
Instantiate(kind) ==
    /\ res' = Call("new", kind, ClassCall(kind))
    /\ UNCHANGED <<pv, battery, diesel_gen, grid, load, supplied_minimum_power>>

\* obj.investment_cost(), the call of the Component contract
Component_call_investment_cost(kind) ==
    /\ res' = Call("investment_cost", kind, investment_cost_call(kind))
    /\ UNCHANGED <<pv, battery, diesel_gen, grid, load, supplied_minimum_power>>

HybridEnergySystem_total_investment_cost ==
    /\ res' = Call("total_investment_cost", <<>>, total_investment_cost)
    /\ UNCHANGED <<pv, battery, diesel_gen, grid, load, supplied_minimum_power>>

\* The cost queries and what they read
\* Grid.set_grid_data(new_data): the attribute is assigned only when the
\* validation returns
Grid_set_grid_data(new_data) ==
    LET v == validate_grid_data(new_data)
    IN  /\ grid' = IF v.kind = "value"
                   THEN [grid EXCEPT !.grid_data = v.val]
                   ELSE grid
        /\ res' = Call("Grid.set_grid_data", new_data.columns,
                       IF v.kind = "value" THEN Return(None) ELSE v)
        /\ UNCHANGED <<pv, battery, diesel_gen, load, supplied_minimum_power>>

\* Grid.get_grid_status_and_tariff(month, day, hour); the call is recorded
\* with the dataset it found
Grid_get_grid_status_and_tariff(month, day, hour) ==
    /\ res' = Call("Grid.get_grid_status_and_tariff",
                   [month |-> month, day |-> day, hour |-> hour,
                    data |-> grid.grid_data],
                   get_grid_status_and_tariff(grid, month, day, hour))
    /\ UNCHANGED <<pv, battery, diesel_gen, grid, load, supplied_minimum_power>>

\* Load.set_load_data(new_data)
Load_set_load_data(new_data) ==
    LET v == validate_load_data(new_data)
    IN  /\ load' = IF v.kind = "value"
                   THEN [load EXCEPT !.load_data = v.val]
                   ELSE load
        /\ res' = Call("Load.set_load_data", new_data.columns,
                       IF v.kind = "value" THEN Return(None) ELSE v)
        /\ UNCHANGED <<pv, battery, diesel_gen, grid, supplied_minimum_power>>

\* Load.get_demand(month, day, hour)
Load_get_demand(month, day, hour) ==
    /\ res' = Call("Load.get_demand",
                   [month |-> month, day |-> day, hour |-> hour,
                    data |-> load.load_data],
                   get_demand(load, month, day, hour))
    /\ UNCHANGED <<pv, battery, diesel_gen, grid, load, supplied_minimum_power>>

\* DieselGen(capacity, minimum_power): a new generator
DieselGen_init(capacity, minimum_power) ==
    /\ diesel_gen' = DieselGen_new(capacity, minimum_power)
    /\ supplied_minimum_power' = minimum_power
    /\ res' = Call("DieselGen", <<capacity, minimum_power>>, Return("DieselGen"))
    /\ UNCHANGED <<pv, battery, grid, load>>

\* DieselGen.set_capacity(value)
DieselGen_set_capacity(value) ==
    /\ diesel_gen' = DieselGen_capacity_set(diesel_gen, value)
    /\ res' = Call("DieselGen.set_capacity", value, Return(None))
    /\ UNCHANGED <<pv, battery, grid, load, supplied_minimum_power>>

\* DieselGen.set_minimum_power(value)
DieselGen_set_minimum_power(value) ==
    /\ diesel_gen' = set_minimum_power(diesel_gen, value)
    /\ supplied_minimum_power' = value
    /\ res' = Call("DieselGen.set_minimum_power", value, Return(None))
    /\ UNCHANGED <<pv, battery, grid, load>>

\* DieselGen.set_cost_per_kwh(value)
DieselGen_set_cost_per_kwh(value) ==
    /\ diesel_gen' = setattr(diesel_gen, "cost_per_kwh", value)
    /\ res' = Call("DieselGen.set_cost_per_kwh", value, Return(None))
    /\ UNCHANGED <<pv, battery, grid, load, supplied_minimum_power>>

\* Battery(capacity=..., min_charging_time=...): a new battery, unless the
\* constructor raises
Battery_init(capacity, min_charging_time) ==
    LET b == Battery_new(capacity, min_charging_time, 1000, 2)
    IN  /\ battery' = IF b.out.kind = "value" THEN b.self ELSE battery
        /\ res' = Call("Battery", <<capacity, min_charging_time>>,
                       IF b.out.kind = "value" THEN Return("Battery") ELSE b.out)
        /\ UNCHANGED <<pv, diesel_gen, grid, load, supplied_minimum_power>>

\* Battery.set_capacity(value)
Battery_set_capacity(value) ==
    LET b == Battery_capacity_set(battery, value)
    IN  /\ battery' = b.self
        /\ res' = Call("Battery.set_capacity", value, b.out)
        /\ UNCHANGED <<pv, diesel_gen, grid, load, supplied_minimum_power>>

\* Battery.set_min_charging_time(value)
Battery_set_min_charging_time(value) ==
    LET b == Battery_min_charging_time_set(battery, value)
    IN  /\ battery' = b.self
        /\ res' = Call("Battery.set_min_charging_time", value, b.out)
        /\ UNCHANGED <<pv, diesel_gen, grid, load, supplied_minimum_power>>

\* Battery.set_SOC_min, set_SOC_max, set_SOC_init, set_eff_ch, set_eff_disch
Battery_set(name, value) ==
    /\ battery' = [battery EXCEPT ![name] = value]
    /\ res' = Call("Battery.set", <<name, value>>, Return(None))
    /\ UNCHANGED <<pv, diesel_gen, grid, load, supplied_minimum_power>>

NextCost ==
    \/ \E cost \in Costs, lifetime \in Lifetimes :
          PVPanel_init(FirstData, cost, lifetime)
    \/ \E r \in Rates : PVPanel_calculate_investment_cost(r)
    \/ \E r \in Rates : Battery_call_investment_cost(r)
    \/ \E value \in Costs : Battery_set_cost(value)
    \/ \E value \in Lifetimes : Battery_set_lifetime(value)
    \/ \E newly_installed \in NewlyInstalled :
          DieselGen_call_investment_cost(newly_installed)
    \/ Grid_call_calculate_investment_cost
    \/ \E kind \in Classes : Instantiate(kind)
    \/ \E kind \in Kinds : Component_call_investment_cost(kind)
    \/ HybridEnergySystem_total_investment_cost

\* The irradiance processing of a panel's dataset
NextData ==
    \/ \E data \in Datasets : PVPanel_init(data, 750, 2)
    \/ \E day \in Days, G \in Radiations, zen \in Zeniths, site \in Sites,
          kt \in ClearnessIndexes :
          PVPanel_radiation_slope_surface(day, 12, G, zen, site, kt)
    \/ PVPanel_calculate_irradiance_vector

\* The power model of a panel
NextPower ==
    \/ \E data \in PowerDatasets : PVPanel_init(data, 750, 2)
    \/ \E name \in SettableAttributes : PVPanel_set(name, SetterValue(name))
    \/ PVPanel_calculate_irradiance_vector
    \/ PVPanel_calculate_power_output

\* The grid's and the load's datasets and their lookups
NextLookup ==
    \/ \E new_data \in GridDatasets : Grid_set_grid_data(new_data)
    \/ \E t \in Times : Grid_get_grid_status_and_tariff(t[1], t[2], t[3])
    \/ \E new_data \in LoadDatasets : Load_set_load_data(new_data)
    \/ \E t \in Times : Load_get_demand(t[1], t[2], t[3])

\* The generator's construction and setters
NextDiesel ==
    \/ \E capacity \in Capacities, minimum_power \in MinimumPowers :
          DieselGen_init(capacity, minimum_power)
    \/ \E value \in Capacities : DieselGen_set_capacity(value)
    \/ \E value \in MinimumPowers : DieselGen_set_minimum_power(value)
    \/ \E value \in FuelCosts : DieselGen_set_cost_per_kwh(value)

\* The battery's construction and setters
NextBattery ==
    \/ \E capacity \in BatteryCapacities, min_charging_time \in ChargingTimes :
          Battery_init(capacity, min_charging_time)
    \/ \E value \in BatteryCapacities : Battery_set_capacity(value)
    \/ \E value \in ChargingTimes : Battery_set_min_charging_time(value)
    \/ \E name \in PlainBatteryAttributes, value \in Hundredths :
          Battery_set(name, value)
    \/ \E value \in Costs : Battery_set_cost(value)
    \/ \E value \in Lifetimes : Battery_set_lifetime(value)

Next == NextCost \/ NextData \/ NextPower \/ NextLookup \/ NextDiesel \/ NextBattery

Spec == Init /\ [][Next]_vars

SpecCost == Init /\ [][NextCost]_vars

SpecData == Init /\ [][NextData]_vars

SpecPower == Init /\ [][NextPower]_vars

SpecLookup == Init /\ [][NextLookup]_vars

SpecDiesel == Init /\ [][NextDiesel]_vars

SpecBattery == Init /\ [][NextBattery]_vars

----------------------------------------------------------------------------
(* Claims on the cost queries, under SpecCost *)

\* C1: total_investment_cost() returns a value, and the value is the sum
\* of the individually computed investment costs of the PV panel, the
\* battery and the diesel generator plus zero for the grid and the load.
C1_TotalIsSumOfComponentCosts ==
    res.op = "total_investment_cost" =>
        /\ res.kind = "value"
        /\ \E r \in Rates, n \in NewlyInstalled :
              LET a == PV_annual_cost(pv, r)
                  b == Battery_investment_cost(battery, r)
                  c == DieselGen_investment_cost(diesel_gen, n)
              IN  /\ a.kind = "value" /\ b.kind = "value" /\ c.kind = "value"
                  /\ FracEq(res.val,
                            FracAdd(FracAdd(a.val, b.val),
                                    FracAdd(c.val, FracAdd(FracInt(0), FracInt(0)))))

\* C2: every one of the five component kinds can be constructed and its
\* investment_cost operation is the class's own, not the abstract one; for
\* Grid and Load that operation returns 0.
C2_EveryKindHasInvestmentCost ==
    /\ (res.op = "new" => (res.args \in Kinds => res.kind = "value"))
    /\ (res.op = "investment_cost" =>
           /\ res.kind # "NotImplementedError"
           /\ (res.args \in {"Grid", "Load"} =>
                  res.kind = "value" /\ FracEq(res.val, FracInt(0))))

\* v = cost * r / (1 - (1 + r) ** -lifetime) for r = <<n, d>>, as the
\* equation v * (1 - (d / (d + n)) ** lifetime) = cost * n / d cleared of
\* its denominators
IsAnnuity(v, cost, r, lifetime) ==
    v[1] * (Pow(r[2] + r[1], lifetime) - Pow(r[2], lifetime)) * r[2]
        = cost * r[1] * Pow(r[2] + r[1], lifetime) * v[2]

\* C3: an annuity cost call of PVPanel or Battery with an interest rate
\* outside the open interval (0, 1) raises the validation error and returns
\* no value; with a rate inside it returns
\* cost * r / (1 - (1 + r) ** -lifetime).
C3_AnnuityValidatesInterestRate ==
    /\ (res.op = "PVPanel.calculate_investment_cost" =>
           IF RateInOpenUnitInterval(res.args)
           THEN res.kind = "value"
                /\ IsAnnuity(res.val, pv.cost, res.args, pv.lifetime)
           ELSE res.kind = "ValueError")
    /\ (res.op = "Battery.investment_cost" =>
           IF RateInOpenUnitInterval(res.args)
           THEN res.kind = "value"
                /\ IsAnnuity(res.val, battery.cost, res.args, battery.lifetime)
           ELSE res.kind = "ValueError")

----------------------------------------------------------------------------
(* Claims on the irradiance processing, under SpecData *)

\* The outcome of a calculate_irradiance_vector call that returned
Processed == res.op = "calculate_irradiance_vector" /\ res.kind = "value"

\* C4: the February length used is 29 whenever the dataset has more than
\* 8760 rows and 28 whenever it has exactly 8760 rows, whatever the month
\* and day of the last row.
C4_FebruaryFollowsRowCount ==
    Processed =>
        /\ (res.args.len > HoursPerYear => res.val.february = 29)
        /\ (res.args.len = HoursPerYear => res.val.february = 28)

\* The length of month i in a year whose February has feb days
MonthLength(i, feb) ==
    IF i = 2 THEN feb ELSE IF i \in {4, 6, 9, 11} THEN 30 ELSE 31

RECURSIVE DaysBefore(_, _)
\* The sum of the lengths of months 1..m-1
DaysBefore(m, feb) ==
    IF m = 1 THEN 0 ELSE MonthLength(m - 1, feb) + DaysBefore(m - 1, feb)

\* C5: for every row, with month m and day d, the day-of-year passed to the
\* HDKR model is d plus the lengths of months 1..m-1 under the February
\* length chosen for the dataset; month 3, day 1 under February = 28 is 60.
C5_DayOfYear ==
    Processed =>
        \A t \in 1..Len(res.args.rows) :
            LET m == Cell(res.val.required_columns[1], res.args.rows[t])
                d == Cell(res.val.required_columns[2], res.args.rows[t])
                doy == res.val.day_of_year[t]
            IN  /\ m \in 1..12
                /\ doy = d + DaysBefore(m, res.val.february)
                /\ (m = 3 /\ d = 1 /\ res.val.february = 28 => doy = 60)

\* C5 witness: a processed dataset with a row of 1 March, February = 28
C5_Witness ==
    /\ Processed
    /\ res.val.february = 28
    /\ \E t \in 1..Len(res.args.rows) :
          /\ res.args.rows[t].month = 3 /\ res.args.rows[t].day = 1
          /\ res.val.required_columns[2] = c_Day
          /\ res.val.day_of_year[t] = 60

\* C6: radiation_slope_surface returns exactly 0, raising nothing, whenever
\* G_horizontal_radiation = 0 or solar_zenith < 0, whatever the other
\* arguments are; and every such row of a processed dataset has
\* Calculated_Irradiance = 0.
C6_NightIsZero ==
    /\ (res.op = "radiation_slope_surface" =>
           (res.args.G_horizontal_radiation = 0 \/ res.args.solar_zenith < 0
              => res.kind = "value" /\ res.val.returned = "0"))
    /\ (Processed =>
           /\ InSeq(c_Calculated_Irradiance, pv.irradiance_data.columns)
           /\ \A t \in 1..Len(res.args.rows) :
                 (res.args.rows[t].ghi = 0 \/ res.args.rows[t].zen < 0
                    => pv.irradiance_data.irr[t].returned = "0"))

\* C6 witness: a processed dataset with a row of positive irradiance and a
\* negative zenith angle, whose calculated irradiance is 0
C6_Witness ==
    /\ Processed
    /\ \E t \in 1..Len(res.args.rows) :
          /\ res.args.rows[t].ghi > 0 /\ res.args.rows[t].zen < 0
          /\ pv.irradiance_data.irr[t].returned = "0"

\* C7: Ro_d is chosen by three branches in order: kt <= 0.35 gives
\* 1 - 0.249 kt; kt > 0.75 gives 0.177; any other kt gives 1.557 - 1.84 kt.
\* kt = 0.35 takes the first branch and kt = 0.75 the third.
C7_DiffuseFractionBranches ==
    res.op = "radiation_slope_surface" /\ res.val.returned = "s_radiation" =>
        LET kt == res.args.clearness_index
        IN  /\ (kt <= 350 =>
                   res.val.branch = 1 /\ res.val.Ro_d = 1000000 - 249 * kt)
            /\ (kt > 750 => res.val.branch = 2 /\ res.val.Ro_d = 177000)
            /\ (kt > 350 /\ kt <= 750 =>
                   res.val.branch = 3 /\ res.val.Ro_d = 1557000 - 1840 * kt)
            /\ (kt = 350 => res.val.Ro_d = 912850)
            /\ (kt = 750 => res.val.branch # 2)

\* C7 witness: a call past the guard with kt = 0.75, on the linear branch
C7_Witness ==
    /\ res.op = "radiation_slope_surface"
    /\ res.val.returned = "s_radiation"
    /\ res.args.clearness_index = 750
    /\ res.val.branch = 3

\* The positions of the columns whose lower-cased name contains token r
Matches(columns, r) ==
    {c \in 1..Len(columns) : StrContains(required_columns[r], StrLower(columns[c]))}

\* The smallest and the largest member of a non-empty set of positions
First(S) == CHOOSE c \in S : \A e \in S : c <= e

Last(S) == CHOOSE c \in S : \A e \in S : c >= e

\* The tokens, in order, that match no column
Unresolved(columns) ==
    SelectSeq(required_columns,
              LAMBDA tok : ~\E c \in 1..Len(columns) :
                                StrContains(tok, StrLower(columns[c])))

----------------------------------------------------------------------------
(* Claims on the power model, under SpecPower *)

\* C8: after calculate_irradiance_vector has run, calculate_power_output
\* succeeds and returns the dataset with a Power_Output column whose value
\* in every row is P_max * (irradiance / G_0) * (1 + Beta_p * (T_cell - T_0))
\* with T_cell = ((TC_N - Talpha_N) / G_N) * irradiance + temperature, for
\* the panel's current parameters.
C8_PowerOutputAfterIrradiance ==
    res.op = "calculate_power_output"
      /\ InSeq(c_Calculated_Irradiance, res.args.columns) =>
        /\ res.kind = "value"
        /\ InSeq(c_Power_Output, pv.irradiance_data.columns)
        /\ \A t \in 1..Len(res.args.rows) :
              pv.irradiance_data.power[t]
                  = PowerTerm(res.args.irr[t], res.args.rows[t].temp, pv.TC_N,
                              pv.Talpha_N, pv.G_N, pv.P_max, pv.G_0, pv.Beta_p,
                              pv.T_0)

\* Whether no column is, lower-cased, the temperature column of the schema
NoTemperatureColumn(columns) ==
    ~\E c \in 1..Len(columns) : StrLower(columns[c]) = t_temperature

\* C9: calculate_power_output fails with the precondition error naming the
\* missing prerequisite whenever the calculated-irradiance column or the
\* temperature column of the schema is absent, and then adds no
\* Power_Output column.
C9_PowerOutputPrecondition ==
    res.op = "calculate_power_output"
      /\ (\/ ~InSeq(c_Calculated_Irradiance, res.args.columns)
          \/ NoTemperatureColumn(res.args.columns)) =>
        /\ res.kind = "ValueError"
        /\ res.val = "Irradiance data must be calculated first. Use calculate_irradiance_vector method."
        /\ ~InSeq(c_Power_Output, pv.irradiance_data.columns)
        /\ pv.irradiance_data = res.args

\* C9 witness: calculate_power_output called before the irradiance column
\* exists, refused
C9_Witness ==
    /\ res.op = "calculate_power_output"
    /\ ~InSeq(c_Calculated_Irradiance, res.args.columns)
    /\ res.kind = "ValueError"

----------------------------------------------------------------------------
(* Claims on the construction of a panel, under SpecData *)

\* C11: constructing a PVPanel fails with a schema validation error exactly
\* when some required semantic column matches no column of the dataset
\* under the case-insensitive substring rule of the dataset contract, and
\* the error names the missing columns; a dataset that the irradiance
\* processor can resolve is never rejected.
C11_ConstructionRejectsUnresolvable ==
    res.op = "PVPanel" =>
        IF Unresolved(res.args) # <<>>
        THEN res.kind = "ValueError" /\ res.val = Unresolved(res.args)
        ELSE res.kind = "value"

----------------------------------------------------------------------------
(* Claims on the lookups of the grid and the load, under SpecLookup *)

\* The positions of the rows of the dataset with exactly this time
RowsAt(rows, a) ==
    {i \in DOMAIN rows : /\ rows[i].month = a.month
                          /\ rows[i].day = a.day
                          /\ rows[i].hour = a.hour}

Earliest(M) == CHOOSE i \in M : \A j \in M : i <= j

\* C12: a grid or load lookup by (month, day, hour) never raises; with no
\* row of exactly that time it returns (None, None), respectively None, and
\* otherwise the values of the first such row in dataset order; the
\* dataset is the one the call found.
C12_LookupFirstRowOrNone ==
    /\ res.op = "Grid.get_grid_status_and_tariff" =>
        /\ res.kind = "value"
        /\ grid.grid_data = res.args.data
        /\ LET rows == grid.grid_data.rows
               M == RowsAt(rows, res.args)
           IN  IF M = {}
               THEN res.val = <<None, None>>
               ELSE res.val = <<rows[Earliest(M)].status,
                                rows[Earliest(M)].tariff>>
    /\ res.op = "Load.get_demand" =>
        /\ res.kind = "value"
        /\ load.load_data = res.args.data
        /\ LET rows == load.load_data.rows
               M == RowsAt(rows, res.args)
           IN  IF M = {}
               THEN res.val = None
               ELSE res.val = rows[Earliest(M)].demand

\* A grid lookup at a time that none of the dataset's rows has, on a
\* dataset that has rows, returned (None, None)
C12_Witness ==
    /\ res.op = "Grid.get_grid_status_and_tariff"
    /\ Len(grid.grid_data.rows) = MaxLookupRows
    /\ RowsAt(grid.grid_data.rows, res.args) = {}
    /\ res.kind = "value"
    /\ res.val = <<None, None>>

----------------------------------------------------------------------------
(* Claims on the generator's minimum power, under SpecDiesel *)

\* C13: after construction and any set_capacity and set_minimum_power
\* calls, a most recently supplied minimum power that is a number below 1
\* makes minimum_power that fraction of the current capacity, and one that
\* is 1 or more is minimum_power itself, whatever capacity was set since:
\* an earlier fraction is not applied again.
C13_MinimumPowerFollowsLastSupplied ==
    LET v == supplied_minimum_power
    IN  isinstance_number(v) =>
            IF LessThanOne(v)
            THEN diesel_gen.minimum_power = Product(diesel_gen.capacity, v)
            ELSE diesel_gen.minimum_power = v

\* An absolute minimum power was supplied to a generator built with a
\* fraction, and the capacity was set to a new value afterwards
C13_Witness ==
    /\ res.op = "DieselGen.set_capacity"
    /\ supplied_minimum_power = <<3000, 1>>
    /\ diesel_gen.capacity = 20000
    /\ diesel_gen.minimum_power = <<3000, 1>>

----------------------------------------------------------------------------
(* Claims on the battery's maximum power, under SpecBattery *)

\* The calls of the setters that are not set_capacity or
\* set_min_charging_time
OtherBatterySetters == {"Battery.set", "Battery.set_cost", "Battery.set_lifetime"}

\* C14: after construction and any setter calls, P_B_max is the quotient
\* capacity / min_charging_time of the current capacity and
\* min_charging_time, and the setters other than set_capacity and
\* set_min_charging_time leave P_B_max unchanged.
C14_MaxPowerIsCapacityOverChargingTime ==
    /\ [](/\ battery.min_charging_time # 0
          /\ FracEq(battery.P_B_max,
                    <<battery.capacity, battery.min_charging_time>>))
    /\ [][res'.op \in OtherBatterySetters => battery'.P_B_max = battery.P_B_max]_vars

====
